---- MODULE Spec2Model ----
(***************************************************************************)
(* Model of returns_analysis.py: the ingestion loop of main(), with        *)
(* safe_read, coerce_types and validate_row_level.                         *)
(*                                                                         *)
(* Representation.                                                         *)
(*  - A Python str is the sequence of its characters, so that str.strip(), *)
(*    pd.to_numeric and pd.to_datetime are computed on the text.           *)
(*  - A column label of a file is a sequence of tokens: the name itself    *)
(*    (one token) with optional whitespace tokens around it.               *)
(*  - A cell is a tagged record [t, v]; NA stands for every pandas missing *)
(*    marker (NaN, NaT, pd.NA), which pd.isna() does not distinguish.      *)
(*  - Python's None is the empty tuple and any other optional value x is   *)
(*    the one-element tuple <<x>>.                                         *)
(***************************************************************************)
EXTENDS Integers, Sequences, FiniteSets, TLC

VARIABLES disk, pc, files, i, all_frames, error_rows, master, error_df, saved

vars == <<disk, pc, files, i, all_frames, error_rows, master, error_df, saved>>

(* ------------------------------ bounds -------------------------------- *)

\* Spec: at most MaxFiles files in the input folder, MaxBatchRows data rows
\* in all of them together.  SpecTable: one file of at most MaxTableRows rows.
MaxFiles == 2
MaxBatchRows == 2
MaxTableRows == 1

(* ------------------------- values and text ---------------------------- *)

None == <<>>
Some(x) == <<x>>

NA == [t |-> "NA", v |-> <<>>]
Str(s) == [t |-> "str", v |-> s]
Int64(n) == [t |-> "int", v |-> <<n>>]
\* a float64 that holds the decimal  whole.frac  (frac without trailing zeros)
Float64(whole, frac) == [t |-> "float", v |-> <<whole, frac>>]
Date(y, m, d) == [t |-> "date", v |-> <<y, m, d>>]

isna(c) == c.t = "NA"
notna(c) == ~isna(c)

Whitespace == {" ", "\t", "\n"}
DigitChars == <<"0", "1", "2", "3", "4", "5", "6", "7", "8", "9">>
Digits == {DigitChars[k] : k \in 1..10}
DigitVal(c) == (CHOOSE k \in 1..10 : DigitChars[k] = c) - 1

RECURSIVE lstrip(_)
lstrip(s) == IF s # <<>> /\ Head(s) \in Whitespace THEN lstrip(Tail(s)) ELSE s

RECURSIVE rstrip(_)
rstrip(s) ==
    IF s # <<>> /\ s[Len(s)] \in Whitespace THEN rstrip(SubSeq(s, 1, Len(s) - 1)) ELSE s

\* str.strip()
strip(s) == rstrip(lstrip(s))

\* str(v) of a cell holding text
str(c) == c.v

RECURSIVE DigitsValue(_)
DigitsValue(s) ==
    IF s = <<>> THEN 0 ELSE 10 * DigitsValue(SubSeq(s, 1, Len(s) - 1)) + DigitVal(s[Len(s)])

RECURSIVE DropTrailingZeros(_)
DropTrailingZeros(s) ==
    IF s # <<>> /\ s[Len(s)] = "0" THEN DropTrailingZeros(SubSeq(s, 1, Len(s) - 1)) ELSE s

\* The decimal texts pd.to_numeric accepts, as far as the model's inputs go:
\* digits with at most one decimal point, surrounding whitespace ignored.
\* NaN stands for "does not parse" (errors="coerce").
NaN == [nan |-> TRUE, whole |-> 0, frac |-> <<>>]
ParseNumber(s) ==
    LET body == strip(s)
        dots == {k \in 1..Len(body) : body[k] = "."}
        dot  == IF dots = {} THEN Len(body) + 1 ELSE CHOOSE k \in dots : TRUE
        w    == SubSeq(body, 1, dot - 1)
        f    == SubSeq(body, dot + 1, Len(body))
    IN  IF /\ Cardinality(dots) <= 1
           /\ Len(w) + Len(f) > 0
           /\ \A k \in 1..Len(w) : w[k] \in Digits
           /\ \A k \in 1..Len(f) : f[k] \in Digits
        THEN [nan |-> FALSE, whole |-> DigitsValue(w), frac |-> DropTrailingZeros(f)]
        ELSE NaN

IsLeap(y) == (y % 4 = 0 /\ y % 100 # 0) \/ y % 400 = 0
DaysIn(y, m) ==
    IF m = 2 THEN (IF IsLeap(y) THEN 29 ELSE 28)
    ELSE IF m \in {4, 6, 9, 11} THEN 30 ELSE 31

\* The date texts pd.to_datetime accepts, as far as the model's inputs go:
\* YYYY-MM-DD naming a day of the calendar.  NaT is NA.
ParseDate(s) ==
    IF /\ Len(s) = 10
       /\ s[5] = "-" /\ s[8] = "-"
       /\ \A k \in {1, 2, 3, 4, 6, 7, 9, 10} : s[k] \in Digits
    THEN LET y == DigitsValue(SubSeq(s, 1, 4))
             m == DigitsValue(SubSeq(s, 6, 7))
             d == DigitsValue(SubSeq(s, 9, 10))
         IN  IF m \in 1..12 /\ d \in 1..DaysIn(y, m) THEN Date(y, m, d) ELSE NA
    ELSE NA

RECURSIVE ConcatTo(_, _)
\* F[1] \o ... \o F[n]
ConcatTo(F, n) == IF n = 0 THEN <<>> ELSE ConcatTo(F, n - 1) \o F[n]

ConcatAll(F) == ConcatTo(F, Len(F))

(* ------------------------------ schema -------------------------------- *)

required_columns ==
    << "Plant", "Plant Code", "Date Delivered", "Date Returned", "Customer",
       "Customer Category", "Product", "Product Code", "Total Delivered (kgs)",
       "Total Returned (kgs)", "Reason of Return", "Return Category",
       "Accountability", "Validation", "Remarks" >>

SchemaColumns == {required_columns[k] : k \in 1..Len(required_columns)}

columns ==
    [col \in SchemaColumns |->
        CASE col = "Plant Code" -> "Int64"
          [] col \in {"Date Delivered", "Date Returned"} -> "datetime64[D]"
          [] col \in {"Total Delivered (kgs)", "Total Returned (kgs)"} -> "float64"
          [] OTHER -> "str"]

allowed_validation_vals == { <<"V", "a", "l", "i", "d">>, <<"I", "n", "v", "a", "l", "i", "d">> }

(* --------------------------- coerce_types ----------------------------- *)

\* A table (DataFrame with a RangeIndex): its column names and its rows in
\* order, each row a function on the column names.
Table(cols, rows) == [columns |-> cols, rows |-> rows]

\* pd.to_datetime(series, errors="coerce").dt.date, on one cell
to_datetime(c) == IF isna(c) THEN NA ELSE ParseDate(str(c))

\* pd.to_numeric(series, errors="coerce"), on one cell
to_numeric(c) ==
    IF isna(c) THEN NA
    ELSE LET n == ParseNumber(str(c))
         IN  IF n.nan THEN NA ELSE Float64(n.whole, n.frac)

\* coerced.isna() & series.notna()
bad_mask(coerced, raw) == isna(coerced) /\ notna(raw)

\* the value checked by bad_mask for a cell of a typed column
coerced_value(dtype, c) ==
    IF dtype \in {"datetime64[ns]", "datetime64[D]"} THEN to_datetime(c)
    ELSE IF dtype \in {"float64", "float", "Int64", "int64", "Int32"} THEN to_numeric(c)
    ELSE c

\* issue_kind with the date failures named bad_date
issue_kind_bad_date(dtype) ==
    IF dtype \in {"datetime64[ns]", "datetime64[D]"} THEN "bad_date"
    ELSE IF dtype \in {"float64", "float"} THEN "bad_float"
    ELSE "bad_int"

issue_kind(dtype) ==
    IF dtype \in {"datetime64[ns]", "datetime64[D]"} THEN "bad_datetime"
    ELSE IF dtype \in {"float64", "float"} THEN "bad_float"
    ELSE "bad_int"

\* coerced.astype("Int64") raises TypeError (cannot safely cast non-equivalent
\* float64 to int64) when some parsed value is not a whole number.
astype_Int64_raises(df, col) ==
    \E j \in 1..Len(df.rows) :
        LET x == to_numeric(df.rows[j][col]) IN notna(x) /\ x.v[2] # <<>>

astype_Int64(x) == IF isna(x) THEN NA ELSE Int64(x.v[1])

\* what df2[col] holds, for one cell, when the column's branch is done
stored_value(dtype, c) ==
    IF dtype \in {"datetime64[ns]", "datetime64[D]"} THEN to_datetime(c)
    ELSE IF dtype \in {"float64", "float"} THEN to_numeric(c)
    ELSE IF dtype \in {"Int64", "int64", "Int32"} THEN astype_Int64(to_numeric(c))
    ELSE c

\* column_issues with the missing column reported once for every row
column_issues_per_row(df, col) ==
    IF col \notin df.columns
    THEN [j \in 1..Len(df.rows) |-> <<"missing_column", col, None>>]
    ELSE IF columns[col] = "str" THEN <<>>
    ELSE ConcatAll([j \in 1..Len(df.rows) |->
            IF bad_mask(coerced_value(columns[col], df.rows[j][col]), df.rows[j][col])
            THEN << <<issue_kind(columns[col]), col, j - 1, df.rows[j][col]>> >>
            ELSE <<>>])

\* the issues appended while the loop of coerce_types is at column col
column_issues(df, col) ==
    IF col \notin df.columns
    THEN << <<"missing_column", col, None>> >>
    ELSE IF columns[col] = "str" THEN <<>>
    ELSE ConcatAll([j \in 1..Len(df.rows) |->
            IF bad_mask(coerced_value(columns[col], df.rows[j][col]), df.rows[j][col])
            THEN << <<issue_kind(columns[col]), col, j - 1, df.rows[j][col]>> >>
            ELSE <<>>])

\* coerced_columns with the columns outside the schema dropped
coerced_columns_schema_only(df) == SchemaColumns

\* the columns of df2 when coerce_types returns
coerced_columns(df) == df.columns \cup SchemaColumns

coerced_cell(df, j, col) ==
    IF col \notin df.columns THEN NA
    ELSE IF col \in SchemaColumns THEN stored_value(columns[col], df.rows[j][col])
    ELSE df.rows[j][col]

coerce_raises(df) ==
    \E col \in SchemaColumns \cap df.columns :
        columns[col] \in {"Int64", "int64", "Int32"} /\ astype_Int64_raises(df, col)

\* coerce_types(df): [raised, df, issues]; when it raises nothing is returned
coerce_types(df) ==
    IF coerce_raises(df)
    THEN [raised |-> TRUE, df |-> None, issues |-> None]
    ELSE [raised |-> FALSE,
          df |-> Table(coerced_columns(df),
                       [j \in 1..Len(df.rows) |->
                           [col \in coerced_columns(df) |-> coerced_cell(df, j, col)]]),
          issues |-> ConcatAll([k \in 1..Len(required_columns) |->
                                   column_issues(df, required_columns[k])])]

(* ------------------------- validate_row_level ------------------------- *)

Finding(plant, row, col, issue, value, file) ==
    [Plant |-> plant, row |-> row, column |-> col, issue |-> issue,
     value |-> value, file |-> file]

\* row.get("Plant", None)
row_get_Plant(df, r) == IF "Plant" \in df.columns THEN Some(r["Plant"]) ELSE None

required_issues(df, idx, col, source_file) ==
    LET r == df.rows[idx + 1] IN
    IF col \notin df.columns
    THEN << Finding(None, Some(idx + 2), Some(col), "column_missing", None, source_file) >>
    ELSE IF isna(r[col]) /\ col \notin {"Remarks"}
    THEN << Finding(row_get_Plant(df, r), Some(idx + 2), Some(col), "missing_value",
                    None, source_file) >>
    ELSE <<>>

validation_issues(df, idx, source_file) ==
    LET r == df.rows[idx + 1] IN
    IF "Validation" \in df.columns
       /\ notna(r["Validation"])
       /\ strip(str(r["Validation"])) \notin allowed_validation_vals
    THEN << Finding(row_get_Plant(df, r), Some(idx + 2), Some("Validation"),
                    "invalid_value", Some(r["Validation"]), source_file) >>
    ELSE <<>>

\* reason_issues without the strip(): only the empty text is blank
reason_issues_unstripped(df, idx, source_file) ==
    LET r == df.rows[idx + 1] IN
    IF "Reason of Return" \in df.columns
       /\ (isna(r["Reason of Return"]) \/ str(r["Reason of Return"]) = <<>>)
    THEN << Finding(row_get_Plant(df, r), Some(idx + 2), Some("Reason of Return"),
                    "missing_reason", Some(r["Reason of Return"]), source_file) >>
    ELSE <<>>

reason_issues(df, idx, source_file) ==
    LET r == df.rows[idx + 1] IN
    IF "Reason of Return" \in df.columns
       /\ (isna(r["Reason of Return"]) \/ strip(str(r["Reason of Return"])) = <<>>)
    THEN << Finding(row_get_Plant(df, r), Some(idx + 2), Some("Reason of Return"),
                    "missing_reason", Some(r["Reason of Return"]), source_file) >>
    ELSE <<>>

row_issues_of(df, idx, source_file) ==
    ConcatAll([k \in 1..Len(required_columns) |->
                  required_issues(df, idx, required_columns[k], source_file)])
    \o validation_issues(df, idx, source_file)
    \o reason_issues(df, idx, source_file)

validate_row_level(df, source_file) ==
    ConcatAll([j \in 1..Len(df.rows) |-> row_issues_of(df, j - 1, source_file)])

(* -------------------------------- main -------------------------------- *)

input_folder == "raw_excels"
master_filename == "master_database.xlsx"
error_report_filename == "error_report.csv"

\* os.path.basename of a path given as its components
basename(path) == path[Len(path)]

\* find_input_files(folder): the paths of the files on disk, sorted
find_input_files(d) == [k \in 1..Len(d) |-> d[k].path]

FileAt(d, path) == CHOOSE f \in {d[k] : k \in 1..Len(d)} : f.path = path

\* safe_read(path): (df, None), or (None, str(e)) when the reader raises
safe_read(d, path) ==
    LET f == FileAt(d, path) IN
    IF f.readable THEN [df |-> Some(Table(f.labels, f.rows)), err |-> None]
    ELSE [df |-> None, err |-> Some(f.err)]

\* str(c).strip() of a column label, which is then a single token: the name
column_name(label) == strip(label)[1]

\* df_raw.columns = [str(c).strip() for c in df_raw.columns]
strip_columns(df) ==
    LET names == {column_name(l) : l \in df.columns}
        label(c) == CHOOSE l \in df.columns : column_name(l) = c
    IN  Table(names, [j \in 1..Len(df.rows) |-> [c \in names |-> df.rows[j][label(c)]]])

\* the entry main appends to error_rows for one item of type_issues
type_issue_row(coerced_df, it, f) ==
    IF it[1] = "missing_column"
    THEN Finding(None, None, Some(it[2]), "missing_column", None, f)
    ELSE Finding(IF it[2] \in coerced_df.columns /\ it[3] + 1 \in 1..Len(coerced_df.rows)
                 THEN row_get_Plant(coerced_df, coerced_df.rows[it[3] + 1])
                 ELSE None,
                 Some(it[3] + 2), Some(it[2]), it[1], Some(it[4]), f)

type_issue_rows(coerced_df, type_issues, f) ==
    [k \in 1..Len(type_issues) |-> type_issue_row(coerced_df, type_issues[k], f)]

read_error_row(err, f) == Finding(None, None, None, "read_error", err, f)

\* coerced_df["__source_file"] = os.path.basename(f)
with_source_file(df, f) ==
    Table(df.columns \cup {"__source_file"},
          [j \in 1..Len(df.rows) |->
              [c \in df.columns \cup {"__source_file"} |->
                  IF c = "__source_file" THEN Str(<<basename(f)>>) ELSE df.rows[j][c]]])

\* pd.concat(frames, ignore_index=True, sort=False): the union of the columns,
\* the rows of the frames one frame after the other, NaN where a frame lacks
\* a column
reindex_row(r, cols) == [c \in cols |-> IF c \in DOMAIN r THEN r[c] ELSE NA]

\* concat with the frames taken last first
concat_reversed(frames) ==
    LET cols == UNION {frames[k].columns : k \in 1..Len(frames)}
        n == Len(frames)
    IN  Table(cols,
              ConcatAll([k \in 1..n |->
                  [j \in 1..Len(frames[n + 1 - k].rows) |->
                      reindex_row(frames[n + 1 - k].rows[j], cols)]]))

concat(frames) ==
    LET cols == UNION {frames[k].columns : k \in 1..Len(frames)}
    IN  Table(cols,
              ConcatAll([k \in 1..Len(frames) |->
                  [j \in 1..Len(frames[k].rows) |-> reindex_row(frames[k].rows[j], cols)]]))

\* line 174
build_master(frames) ==
    IF frames # <<>> THEN concat(frames) ELSE Table(SchemaColumns, <<>>)

\* NoFiles without the early return: the run falls through to the saving
NoFilesFallsThrough ==
    /\ pc = "start"
    /\ find_input_files(disk) = <<>>
    /\ files' = find_input_files(disk)
    /\ master' = Some(build_master(<<>>))
    /\ error_df' = Some(<<>>)
    /\ saved' = {master_filename}
    /\ pc' = "done"
    /\ UNCHANGED <<disk, i, all_frames, error_rows>>

\* lines 143-146: no input files, print and return
NoFiles ==
    /\ pc = "start"
    /\ find_input_files(disk) = <<>>
    /\ pc' = "returned"
    /\ files' = find_input_files(disk)
    /\ UNCHANGED <<disk, i, all_frames, error_rows, master, error_df, saved>>

\* lines 143-148
Start ==
    /\ pc = "start"
    /\ find_input_files(disk) # <<>>
    /\ files' = find_input_files(disk)
    /\ all_frames' = <<>>
    /\ error_rows' = <<>>
    /\ i' = 1
    /\ pc' = "loop"
    /\ UNCHANGED <<disk, master, error_df, saved>>

\* ReadError with break in place of continue
ReadErrorBreaks ==
    /\ pc = "loop"
    /\ i <= Len(files)
    /\ LET rd == safe_read(disk, files[i]) IN
        /\ rd.df = None
        /\ error_rows' = Append(error_rows, read_error_row(rd.err, files[i]))
    /\ i' = Len(files) + 1
    /\ UNCHANGED <<disk, pc, files, all_frames, master, error_df, saved>>

\* lines 150-155: the file does not load
ReadError ==
    /\ pc = "loop"
    /\ i <= Len(files)
    /\ LET rd == safe_read(disk, files[i]) IN
        /\ rd.df = None
        /\ error_rows' = Append(error_rows, read_error_row(rd.err, files[i]))
    /\ i' = i + 1
    /\ UNCHANGED <<disk, pc, files, all_frames, master, error_df, saved>>

\* Ingest with the findings of the file put in front of the ledger
IngestPrepends ==
    /\ pc = "loop"
    /\ i <= Len(files)
    /\ LET rd == safe_read(disk, files[i]) IN
        /\ rd.df # None
        /\ LET df_raw == strip_columns(rd.df[1])
               res == coerce_types(df_raw)
           IN  /\ ~res.raised
               /\ error_rows' = type_issue_rows(res.df, res.issues, files[i])
                      \o validate_row_level(res.df, files[i])
                      \o error_rows
               /\ all_frames' = Append(all_frames, with_source_file(res.df, files[i]))
    /\ i' = i + 1
    /\ UNCHANGED <<disk, pc, files, master, error_df, saved>>

\* lines 150-172: the file loads and coerce_types returns
Ingest ==
    /\ pc = "loop"
    /\ i <= Len(files)
    /\ LET rd == safe_read(disk, files[i]) IN
        /\ rd.df # None
        /\ LET df_raw == strip_columns(rd.df[1])
               res == coerce_types(df_raw)
           IN  /\ ~res.raised
               /\ error_rows' = error_rows
                      \o type_issue_rows(res.df, res.issues, files[i])
                      \o validate_row_level(res.df, files[i])
               /\ all_frames' = Append(all_frames, with_source_file(res.df, files[i]))
    /\ i' = i + 1
    /\ UNCHANGED <<disk, pc, files, master, error_df, saved>>

\* lines 150-157: the file loads and coerce_types raises; nothing in main
\* catches it, so the run ends there with nothing written
Abort ==
    /\ pc = "loop"
    /\ i <= Len(files)
    /\ LET rd == safe_read(disk, files[i]) IN
        /\ rd.df # None
        /\ coerce_types(strip_columns(rd.df[1])).raised
    /\ pc' = "crashed"
    /\ UNCHANGED <<disk, files, i, all_frames, error_rows, master, error_df, saved>>

\* lines 174-188: concatenate and save
Finish ==
    /\ pc = "loop"
    /\ i > Len(files)
    /\ master' = Some(build_master(all_frames))
    /\ error_df' = Some(error_rows)
    /\ saved' = {master_filename}
                \cup (IF error_rows = <<>> THEN {} ELSE {error_report_filename})
    /\ pc' = "done"
    /\ UNCHANGED <<disk, files, i, all_frames, error_rows>>

Next == NoFiles \/ Start \/ ReadError \/ Ingest \/ Abort \/ Finish

(* ------------------------------- inputs ------------------------------- *)

FileNames == <<"b1.csv", "b2.xls", "b3.xlsx", "b4.xlsx">>

T(s) == Str(s)

BaseRow ==
    [col \in SchemaColumns |->
        CASE col = "Plant" -> T(<<"P", "1">>)
          [] col = "Plant Code" -> T(<<"1", "2">>)
          [] col = "Date Delivered" -> T(<<"2", "0", "2", "1", "-", "0", "1", "-", "0", "5">>)
          [] col = "Date Returned" -> T(<<"2", "0", "2", "4", "-", "0", "2", "-", "2", "9">>)
          [] col = "Total Delivered (kgs)" -> T(<<"3", ".", "5">>)
          [] col = "Total Returned (kgs)" -> T(<<"1">>)
          [] col = "Reason of Return" -> T(<<"l", "a", "t", "e">>)
          [] col = "Validation" -> T(<<"V", "a", "l", "i", "d">>)
          [] OTHER -> T(<<"a">>)]

\* the other texts a cell of these columns is drawn from
Alternatives ==
    [col \in {"Plant Code", "Date Delivered", "Total Delivered (kgs)", "Validation",
              "Reason of Return"} |->
        CASE col = "Plant Code" -> {T(<<"1", ".", "5">>), T(<<"7", ".", "0">>), T(<<"x">>), NA}
          [] col = "Date Delivered" ->
                {T(<<"2", "0", "2", "1", "-", "0", "2", "-", "3", "0">>), NA}
          [] col = "Total Delivered (kgs)" -> {T(<<"a", "b", "c">>), NA}
          [] col = "Validation" ->
                {T(<<" ", "I", "n", "v", "a", "l", "i", "d", " ">>),
                 T(<<"m", "a", "y", "b", "e">>), NA}
          [] col = "Reason of Return" -> {T(<<" ">>), NA}]

\* BaseRow and the rows that differ from it in one or two cells
RichRows ==
    {BaseRow}
    \cup UNION {{[BaseRow EXCEPT ![c] = a] : a \in Alternatives[c]} : c \in DOMAIN Alternatives}
    \cup UNION {UNION {{[BaseRow EXCEPT ![c1] = a1, ![c2] = a2] :
                          <<a1, a2>> \in Alternatives[c1] \X Alternatives[c2]} :
                       c2 \in DOMAIN Alternatives \ {c1}} :
                c1 \in DOMAIN Alternatives}

Row(changes) == [c \in SchemaColumns |-> IF c \in DOMAIN changes THEN changes[c] ELSE BaseRow[c]]

\* the rows of the files of a batch: a clean row, a row that makes
\* coerce_types raise, and two rows with coercion and validation findings
BatchRows ==
    { BaseRow,
      Row("Plant Code" :> T(<<"1", ".", "5">>)),
      Row("Plant Code" :> T(<<"x">>) @@ "Date Delivered" :> T(<<"n", "o">>)
          @@ "Reason of Return" :> NA),
      Row("Total Delivered (kgs)" :> T(<<"a", "b", "c">>)
          @@ "Validation" :> T(<<"m", "a", "y", "b", "e">>)
          @@ "Reason of Return" :> T(<<" ">>)) }

\* a file's header: the schema columns it lacks, the columns it adds, and the
\* schema columns whose label it pads with whitespace
Header(lacks, adds, pads) == [lacks |-> lacks, adds |-> adds, pads |-> pads]

Labels(h) ==
    {IF c \in h.pads THEN <<" ", c, " ">> ELSE <<c>> : c \in (SchemaColumns \ h.lacks) \cup h.adds}

RichHeaders ==
    { Header({}, {}, {}),
      Header({"Validation"}, {}, {}),
      Header({"Plant", "Total Delivered (kgs)"}, {}, {}),
      Header({"Remarks"}, {"Notes"}, {"Validation", "Plant Code"}) }

BatchHeaders ==
    { Header({}, {}, {}),
      Header({"Validation"}, {"Notes"}, {"Plant Code"}) }

\* the row of a file with header h that holds the texts of r
FileRow(h, r) ==
    [l \in Labels(h) |-> IF column_name(l) \in SchemaColumns THEN r[column_name(l)]
                         ELSE T(<<"n">>)]

Readable(h, rows) ==
    [readable |-> TRUE, err |-> <<>>, labels |-> Labels(h),
     rows |-> [j \in 1..Len(rows) |-> FileRow(h, rows[j])]]

Unreadable == [readable |-> FALSE, err |-> T(<<"E">>), labels |-> {}, rows |-> <<>>]

RECURSIVE SumTo(_, _)
SumTo(F, n) == IF n = 0 THEN 0 ELSE SumTo(F, n - 1) + F[n]

\* A batch: file k has header hs[k] and count[k] rows, the next count[k] of
\* allrows; count[k] = -1 makes it a file that does not load.
RowsBefore(count, k) == SumTo([m \in DOMAIN count |-> IF count[m] < 0 THEN 0 ELSE count[m]], k)

Batch(count, hs, allrows) ==
    [k \in DOMAIN count |->
        [path |-> <<input_folder, FileNames[k]>>] @@
        (IF count[k] < 0 THEN Unreadable
         ELSE Readable(hs[k], SubSeq(allrows, RowsBefore(count, k - 1) + 1,
                                     RowsBefore(count, k))))]

NoHeader == Header({}, {}, {})

InputBatch(d, maxfiles, maxrows, headers, rowset) ==
    \E n \in 0..maxfiles, t \in 0..maxrows :
        \E count \in [1..n -> -1..t], hs \in [1..n -> headers], allrows \in [1..t -> rowset] :
            /\ RowsBefore(count, n) = t
            /\ \A k \in 1..n : count[k] < 0 => hs[k] = NoHeader
            /\ d = Batch(count, hs, allrows)

InitRest ==
    /\ pc = "start"
    /\ files = <<>>
    /\ i = 0
    /\ all_frames = <<>>
    /\ error_rows = <<>>
    /\ master = None
    /\ error_df = None
    /\ saved = {}

\* up to MaxFiles files of MaxBatchRows rows together
Init ==
    /\ InputBatch(disk, MaxFiles, MaxBatchRows, BatchHeaders, BatchRows)
    /\ InitRest

Spec == Init /\ [][Next]_vars

\* at most one file, of rows and a header drawn from the rich sets
InitTable ==
    /\ InputBatch(disk, 1, MaxTableRows, RichHeaders, RichRows)
    /\ InitRest

SpecTable == InitTable /\ [][Next]_vars

(* ------------------------ vocabulary of the claims -------------------- *)

NFiles == Len(disk)

\* the files whose iteration of the loop of main has run to its end
Processed == IF pc \in {"loop", "done", "crashed"} THEN 1..(i - 1) ELSE {}

\* the files handed to coerce_types so far
Coerced == {k \in 1..NFiles : disk[k].readable /\ (k \in Processed \/ (pc = "crashed" /\ k = i))}

Loads(k) == disk[k].readable

\* the name a label stands for: its one token that is not whitespace
NameOf(l) == CHOOSE c \in {l[m] : m \in 1..Len(l)} : c \notin Whitespace

RawColumns(k) == {NameOf(l) : l \in disk[k].labels}

RawRows(k) == Len(disk[k].rows)

\* the text of column c in data row j of file k, as the reader returned it
RawCell(k, j, c) == disk[k].rows[j][CHOOSE l \in disk[k].labels : NameOf(l) = c]

\* the findings recorded for file k, in ledger order
LedgerOf(k) == SelectSeq(error_rows, LAMBDA e : e.file = disk[k].path)

Count(seq, P(_)) == Len(SelectSeq(seq, P))

\* the position of the frame of file k among the frames: the number of files
\* up to k that load
FramePos(k) == Cardinality({m \in 1..k : Loads(m)})

FrameOf(k) == all_frames[FramePos(k)]

\* the number of rows of the files before k that load
RowsAhead(k) == SumTo([m \in 1..NFiles |-> IF Loads(m) THEN RawRows(m) ELSE 0], k - 1)

SourceTag(k) == Str(<<FileNames[k]>>)

\* the kinds of the findings for a cell that does not coerce
CoercionKinds == {"bad_date", "bad_datetime", "bad_float", "bad_int"}

IsBlank(c) == isna(c) \/ \A m \in 1..Len(c.v) : c.v[m] \in Whitespace

(* -------------------------------- claims ------------------------------ *)

\* C1: no failure aborts the batch: whatever the cells hold, the run never
\* ends in an uncaught exception, and a run over a non-empty batch that has
\* ended has produced both a Master Dataset and an Error Ledger.
C1_NoFailureAbortsTheBatch ==
    /\ pc # "crashed"
    /\ (NFiles > 0 /\ pc \notin {"start", "loop"}) => (master # None /\ error_df # None)

\* C2: a source that fails to load contributes exactly one Finding, of kind
\* read_error with no row number and no column, and no row of the Master
\* Dataset; the run goes on, and when it ends the sources that load have their
\* rows merged and their findings recorded.
C2_ReadErrorExcludesOnlyThatSource ==
    /\ \A k \in Processed :
          ~Loads(k) =>
              /\ Len(LedgerOf(k)) = 1
              /\ LedgerOf(k)[1].issue = "read_error"
              /\ LedgerOf(k)[1].row = None
              /\ LedgerOf(k)[1].column = None
              /\ \A m \in 1..Len(all_frames) : \A j \in 1..Len(all_frames[m].rows) :
                    all_frames[m].rows[j]["__source_file"] # SourceTag(k)
              /\ pc = "done" =>
                    \A p \in 1..Len(master[1].rows) :
                        master[1].rows[p]["__source_file"] # SourceTag(k)
    /\ pc = "crashed" => Loads(i)
    /\ pc = "done" =>
          \A k \in 1..NFiles :
              Loads(k) =>
                  /\ Count(master[1].rows, LAMBDA r : r["__source_file"] = SourceTag(k))
                        = RawRows(k)
                  /\ Count(LedgerOf(k), LAMBDA e : e.issue = "missing_column")
                        = Cardinality(SchemaColumns \ RawColumns(k))

\* C2 witness: a run has ended in which a file that does not load was followed
\* by a file with rows that loads.
C2_Witness ==
    /\ pc = "done"
    /\ \E k \in 1..NFiles : ~Loads(k) /\ k < NFiles /\ Loads(k + 1) /\ RawRows(k + 1) > 0

\* C3: when ingestion of a non-empty batch has ended, the Master Dataset is the
\* concatenation of the coerced tables of the sources that load, in the order of
\* the batch and each in its own row order: its row count is the sum of theirs,
\* and row j of source k is row RowsAhead(k) + j of the Master Dataset, cell for
\* cell, whatever findings were recorded for it.
C3_MasterIsConcatenation ==
    pc = "done" =>
        /\ Len(master[1].rows) = RowsAhead(NFiles + 1)
        /\ \A k \in 1..NFiles :
              Loads(k) =>
                  LET coerced == coerce_types(strip_columns(Table(disk[k].labels, disk[k].rows))).df
                  IN  \A j \in 1..RawRows(k) :
                          LET r == master[1].rows[RowsAhead(k) + j] IN
                          /\ r["__source_file"] = SourceTag(k)
                          /\ \A c \in coerced.columns : r[c] = coerced.rows[j][c]
                          /\ \A c \in DOMAIN r \ (coerced.columns \cup {"__source_file"}) :
                                 r[c] = NA

\* C3 witness: a run has ended that merged two sources with different rows,
\* the first of them with findings.
C3_Witness ==
    /\ pc = "done"
    /\ \E k \in 1..(NFiles - 1) :
          /\ Loads(k) /\ Loads(k + 1)
          /\ RawRows(k) > 0 /\ RawRows(k + 1) > 0
          /\ RawCell(k, 1, "Plant Code") # RawCell(k + 1, 1, "Plant Code")
          /\ \E m \in 1..Len(LedgerOf(k)) : LedgerOf(k)[m].issue = "bad_int"

\* the findings of file k of the given kinds that name data row j (row
\* number j + 1) and column c
FindingsAt(k, j, c, kinds) ==
    SelectSeq(LedgerOf(k),
              LAMBDA e : e.issue \in kinds /\ e.row = Some(j + 1) /\ e.column = Some(c))

\* C4, as claimed: the table coerce_types returns has exactly the columns of
\* the Schema Registry.
C4_ExactlySchemaColumns ==
    \A k \in Processed :
        Loads(k) => FrameOf(k).columns \ {"__source_file"} = SchemaColumns

\* C4, amended: the table coerce_types returns has the columns of the Schema
\* Registry and those of the raw table: schema columns absent from the raw
\* table are added, filled with the absent marker, and the raw table's other
\* columns are kept with their values.
C4_SchemaAndRawColumns ==
    \A k \in Processed :
        Loads(k) =>
            /\ FrameOf(k).columns \ {"__source_file"} = SchemaColumns \cup RawColumns(k)
            /\ Len(FrameOf(k).rows) = RawRows(k)
            /\ \A j \in 1..RawRows(k) :
                  /\ DOMAIN FrameOf(k).rows[j] = FrameOf(k).columns
                  /\ \A c \in SchemaColumns \ RawColumns(k) : FrameOf(k).rows[j][c] = NA
                  /\ \A c \in RawColumns(k) \ SchemaColumns :
                        FrameOf(k).rows[j][c] = RawCell(k, j, c)

\* C4 witness: a file with rows that lacks a schema column and has a column
\* outside the schema has been coerced.
C4_Witness ==
    \E k \in Processed :
        /\ Loads(k) /\ RawRows(k) > 0
        /\ SchemaColumns \ RawColumns(k) # {}
        /\ RawColumns(k) \ SchemaColumns # {}

TypedColumns == {c \in SchemaColumns : columns[c] # "str"}

\* whether a text is a value of the semantic type of a column, and the value
ParsesAs(dtype, raw) ==
    CASE dtype = "Int64" -> ~ParseNumber(str(raw)).nan /\ ParseNumber(str(raw)).frac = <<>>
      [] dtype = "float64" -> ~ParseNumber(str(raw)).nan
      [] dtype = "datetime64[D]" -> ParseDate(str(raw)) # NA

TypedValue(dtype, raw) ==
    CASE dtype = "Int64" -> Int64(ParseNumber(str(raw)).whole)
      [] dtype = "float64" -> Float64(ParseNumber(str(raw)).whole, ParseNumber(str(raw)).frac)
      [] dtype = "datetime64[D]" -> ParseDate(str(raw))

\* the statement of C5 for the cells of file k
CellCoercion(k) ==
    \A j \in 1..RawRows(k) :
        /\ \A c \in TypedColumns \cap RawColumns(k) :
              LET raw == RawCell(k, j, c)
                  found == FindingsAt(k, j, c, CoercionKinds)
              IN  notna(raw) =>
                      IF ParsesAs(columns[c], raw)
                      THEN /\ FrameOf(k).rows[j][c] = TypedValue(columns[c], raw)
                           /\ found = <<>>
                      ELSE /\ FrameOf(k).rows[j][c] = NA
                           /\ Len(found) = 1
                           /\ found[1].value = Some(raw)
        /\ \A c \in (SchemaColumns \ TypedColumns) \cap RawColumns(k) :
              FrameOf(k).rows[j][c] = RawCell(k, j, c)

\* C5: for every cell of a present date, decimal or integer column, a raw value
\* that parses under the column's type is stored typed and raises no coercion
\* Finding; one that is present and does not parse is stored as the absent
\* marker with exactly one coercion Finding naming its row and column and
\* carrying the raw value; the other cells of the row are unaffected.
C5_CellCoercion ==
    \A k \in Coerced : pc # "crashed" /\ CellCoercion(k)

\* what the code keeps of C5: the same, for every table on which coerce_types
\* returns, that is, in which no cell of the integer column holds a number with
\* a fractional part
C5_CellCoercionOfTablesThatCoerce ==
    \A k \in Coerced : pc # "crashed" => CellCoercion(k)

Taxonomy ==
    {"read_error", "missing_column", "bad_date", "bad_float", "bad_int",
     "missing_value", "invalid_value", "missing_reason"}

\* the statement of C6 with the kind of a date failure and the taxonomy as
\* parameters
DateFailures(kind, kinds) ==
    /\ \A k \in Processed :
          Loads(k) =>
              /\ Len(FrameOf(k).rows) = RawRows(k)
              /\ \A j \in 1..RawRows(k) :
                    \A c \in {"Date Delivered", "Date Returned"} \cap RawColumns(k) :
                        LET raw == RawCell(k, j, c) IN
                        (notna(raw) /\ ParseDate(str(raw)) = NA) =>
                            /\ Len(FindingsAt(k, j, c, {kind})) = 1
                            /\ FindingsAt(k, j, c, {kind})[1].value = Some(raw)
                            /\ FrameOf(k).rows[j][c] = NA
    /\ \A m \in 1..Len(error_rows) : error_rows[m].issue \in kinds

\* C6, as claimed: a present cell of a date column that is no calendar date
\* produces a Finding of kind bad_date carrying the raw value, the cell becomes
\* the absent marker and the row stays; every kind in the Error Ledger is one
\* of read_error, missing_column, bad_date, bad_float, bad_int, missing_value,
\* invalid_value, missing_reason.
C6_BadDate == DateFailures("bad_date", Taxonomy)

\* C6, amended: the same with the kind bad_datetime in place of bad_date, for
\* the Finding and in the taxonomy.
C6_BadDatetime ==
    DateFailures("bad_datetime", (Taxonomy \ {"bad_date"}) \cup {"bad_datetime"})

\* C6 witness: a file with a date text that is no calendar date has been
\* processed.
C6_Witness ==
    \E k \in Processed :
        /\ Loads(k)
        /\ \E j \in 1..RawRows(k) :
              /\ "Date Delivered" \in RawColumns(k)
              /\ notna(RawCell(k, j, "Date Delivered"))
              /\ ParseDate(str(RawCell(k, j, "Date Delivered"))) = NA

\* the statement of C8: Both says which findings a blank cell must have
ReasonFindings(Both(_, _, _)) ==
    \A k \in Processed :
        Loads(k) =>
            \A j \in 1..RawRows(k) :
                LET cell == FrameOf(k).rows[j]["Reason of Return"] IN
                IsBlank(cell) =>
                    Both(cell,
                         Len(FindingsAt(k, j, "Reason of Return", {"missing_value"})),
                         Len(FindingsAt(k, j, "Reason of Return", {"missing_reason"})))

\* C8, as claimed: every row whose "Reason of Return" is absent or blank after
\* trimming has both a missing_value and a missing_reason Finding for that row
\* and column.
C8_BlankReasonHasBothFindings ==
    ReasonFindings(LAMBDA cell, nvalue, nreason : nvalue >= 1 /\ nreason >= 1)

\* C8, amended: every such row has exactly one missing_reason Finding for that
\* row and column, and a missing_value Finding as well exactly when the cell is
\* the absent marker: a cell of whitespace only has the missing_reason Finding
\* alone.
C8_BlankReasonFindings ==
    ReasonFindings(LAMBDA cell, nvalue, nreason :
                       nreason = 1 /\ nvalue = (IF isna(cell) THEN 1 ELSE 0))

\* C8 witness: a run has ended that processed a row whose reason is
\* whitespace only.
C8_Witness ==
    /\ pc = "done"
    /\ \E k \in Processed : Loads(k) /\ \E j \in 1..RawRows(k) :
          LET cell == FrameOf(k).rows[j]["Reason of Return"] IN notna(cell) /\ IsBlank(cell)

\* C9: for every source that loads and every schema column its raw table
\* lacks, exactly one Finding of kind missing_column is recorded for that source
\* and column, with no row number, however many rows the source has; every row
\* of the source holds the absent marker in that column, in the coerced table
\* and in the Master Dataset.
C9_MissingColumn ==
    \A k \in Processed :
        Loads(k) =>
            \A c \in SchemaColumns \ RawColumns(k) :
                LET found == SelectSeq(LedgerOf(k),
                                 LAMBDA e : e.issue = "missing_column" /\ e.column = Some(c))
                IN  /\ Len(found) = 1
                    /\ found[1].row = None
                    /\ \A j \in 1..RawRows(k) :
                          /\ FrameOf(k).rows[j][c] = NA
                          /\ pc = "done" => master[1].rows[RowsAhead(k) + j][c] = NA

\* C9 witness: a run has ended that merged a source of two rows lacking the
\* column "Validation".
C9_Witness ==
    /\ pc = "done"
    /\ \E k \in 1..NFiles :
          Loads(k) /\ RawRows(k) >= 2 /\ "Validation" \notin RawColumns(k)

\* C7, as claimed: when the batch is empty, ingestion still produces an empty
\* Master Dataset with the columns of the Schema Registry and an empty Error
\* Ledger.
C7_EmptyBatchProducesOutputs ==
    (NFiles = 0 /\ pc # "start") =>
        /\ master = Some(Table(SchemaColumns, <<>>))
        /\ error_df = Some(<<>>)

\* C7, amended: when the batch is empty, ingestion returns at once: it
\* produces no Master Dataset and no Error Ledger, writes no file and records
\* no finding, and it does not fail.  The empty Master Dataset with the columns
\* of the Schema Registry is what a non-empty batch produces when none of its
\* sources loads.
C7_EmptyBatchReturns ==
    /\ (NFiles = 0 /\ pc # "start") =>
          /\ pc = "returned"
          /\ master = None /\ error_df = None
          /\ saved = {} /\ error_rows = <<>>
    /\ (NFiles > 0 /\ pc = "done" /\ \A k \in 1..NFiles : ~Loads(k)) =>
          /\ master = Some(Table(SchemaColumns, <<>>))
          /\ master_filename \in saved
    /\ pc = "returned" => NFiles = 0

\* C7 witness: the run over the empty batch has ended.
C7_Witness == NFiles = 0 /\ pc = "returned"

IsPrefix(s, t) == Len(s) <= Len(t) /\ SubSeq(t, 1, Len(s)) = s

\* the place of a finding's source in the batch
FileIndex(e) == CHOOSE k \in 1..NFiles : disk[k].path = e.file

\* all findings of an earlier source precede all findings of a later one
SourcesInOrder ==
    \A p, q \in 1..Len(error_rows) :
        p < q => FileIndex(error_rows[p]) <= FileIndex(error_rows[q])

\* C10, as claimed (the part of it that is a property of one state): within
\* one source the findings that name a row appear in non-decreasing row number,
\* coercion and row-validation findings together, and the findings of an
\* earlier source precede those of a later one.
C10_FindingsInRowOrder ==
    /\ SourcesInOrder
    /\ \A k \in 1..NFiles :
          \A p, q \in 1..Len(LedgerOf(k)) :
              (p < q /\ LedgerOf(k)[p].row # None /\ LedgerOf(k)[q].row # None) =>
                  LedgerOf(k)[p].row[1] <= LedgerOf(k)[q].row[1]

ColumnIndex(c) == CHOOSE m \in 1..Len(required_columns) : required_columns[m] = c

CoercionStage == CoercionKinds \cup {"missing_column"}

\* the order of the findings of one source: those of coerce_types first, by
\* schema column and within a column by row; then those of validate_row_level,
\* in non-decreasing row number
StagesInOrder ==
    \A k \in 1..NFiles :
        LET L == LedgerOf(k) IN
        \A p, q \in 1..Len(L) :
            p < q =>
                /\ L[q].issue \in CoercionStage => L[p].issue \in CoercionStage
                /\ (L[p].issue \in CoercionStage /\ L[q].issue \in CoercionStage) =>
                      \/ ColumnIndex(L[p].column[1]) < ColumnIndex(L[q].column[1])
                      \/ /\ L[p].column = L[q].column
                         /\ L[p].row # None /\ L[q].row # None
                         /\ L[p].row[1] < L[q].row[1]
                /\ (L[p].issue \notin CoercionStage /\ L[q].issue \notin CoercionStage
                        /\ L[p].issue # "read_error") =>
                      L[p].row[1] <= L[q].row[1]

\* C10, amended: the Error Ledger is append-only (every step leaves the
\* ledger it found as a prefix of the ledger it leaves), the findings of an
\* earlier source precede those of a later one, and within one source the
\* findings of the coercion come first, ordered by schema column and within a
\* column by row number, followed by the findings of the row validation in
\* non-decreasing row number.
C10_AppendOnlyByStage ==
    [][IsPrefix(error_rows, error_rows') /\ SourcesInOrder' /\ StagesInOrder']_vars

\* C10 witness: a run has ended that recorded, for one source of two rows,
\* coercion and validation findings, after the findings of an earlier source.
C10_Witness ==
    /\ pc = "done"
    /\ \E k \in 2..NFiles :
          /\ LedgerOf(k - 1) # <<>>
          /\ RawRows(k) >= 2
          /\ \E p, q \in 1..Len(LedgerOf(k)) :
                /\ LedgerOf(k)[p].issue = "bad_int" /\ LedgerOf(k)[p].row = Some(3)
                /\ LedgerOf(k)[q].issue = "missing_reason" /\ LedgerOf(k)[q].row = Some(2)

====
